---- MODULE Spec2Model ----
(***************************************************************************)
(* A model of rsh, a small Unix-like shell interpreter.                    *)
(*                                                                         *)
(* A Go string is a sequence of one-character strings; Go's 0-based        *)
(* indices are kept, so peek answers -1 or a 0-based index.  A function    *)
(* that takes the line by pointer (ln *string) answers a record that       *)
(* carries the line it leaves behind.  A record's panic field is TRUE when *)
(* the Go code would index or slice out of range.                          *)
(***************************************************************************)
EXTENDS Integers, Sequences, FiniteSets, TLC

VARIABLES
    input,      \* the lines the scanner has not yet returned
    lineno,     \* how many times main's loop has called Scan with success
    line,       \* the line parse works on: s.Text(), continuation lines joined
    pc,         \* position of main's read loop
    cmd,        \* main's cmd: the tree parse returned for the current line
    err,        \* main's err
    cwd,        \* the process's working directory
    path,       \* the search path
    stderr,     \* what was written to the error stream, in order
    threads,    \* the goroutines executing run: each a stack of run frames
    procs,      \* the OS processes started for Exec nodes
    files,      \* the files opened for Redir nodes and the pipes' ends
    fs,         \* the regular files of the file system
    halted      \* "no", "exit" (os.Exit) or "panic"

vars == <<input, lineno, line, pc, cmd, err, cwd, path, stderr, threads, procs, files, fs, halted>>

-----------------------------------------------------------------------------
(* Characters and strings *)

SP == " "
BSL == "\\"
QUOTE == "'"
STAR == "*"
QMARK == "?"
PIPECH == "|"
AMP == "&"
SEMI == ";"
LT == "<"
GT == ">"

\* Go's zero string
EmptyStr == <<>>

\* s[lo:hi] is in range
InSlice(s, lo, hi) == 0 <= lo /\ lo <= hi /\ hi <= Len(s)

\* s[i] is in range
InIndex(s, i) == 0 <= i /\ i < Len(s)

\* s[lo:hi]; the empty string where Go would panic (the caller records the panic)
GoSlice(s, lo, hi) == IF InSlice(s, lo, hi) THEN SubSeq(s, lo + 1, hi) ELSE <<>>

\* s[i]; "" where Go would panic
GoAt(s, i) == IF InIndex(s, i) THEN s[i + 1] ELSE ""

RECURSIVE TrimLeft(_)
TrimLeft(s) == IF s # <<>> /\ Head(s) = SP THEN TrimLeft(Tail(s)) ELSE s

RECURSIVE TrimRight(_)
TrimRight(s) ==
    IF s # <<>> /\ s[Len(s)] = SP THEN TrimRight(SubSeq(s, 1, Len(s) - 1)) ELSE s

\* strings.TrimSpace
TrimSpace(s) == TrimRight(TrimLeft(s))

\* strings.HasSuffix(s, "\\")
HasBslSuffix(s) == s # <<>> /\ s[Len(s)] = BSL

-----------------------------------------------------------------------------
(* The command tree *)

NoErr == "<nil>"

Nil == [t |-> "nil"]
NoFile == [Path |-> EmptyStr, Mode |-> "0"]
Exec(args) == [t |-> "Exec", Args |-> args]
Redir(c, in, out) == [t |-> "Redir", Cmd |-> c, In |-> in, Out |-> out]
List(l, r) == [t |-> "List", Left |-> l, Right |-> r]
Pipe(l, r) == [t |-> "Pipe", Left |-> l, Right |-> r]
Async(c) == [t |-> "Async", Cmd |-> c]
Conditional(l, r, s) == [t |-> "Conditional", Left |-> l, Right |-> r, Success |-> s]

-----------------------------------------------------------------------------
(* The operator scanner *)

RECURSIVE peekFrom(_, _, _, _, _)
peekFrom(ln, ch, i, quoted, escaped) ==
    IF i >= Len(ln) THEN -1
    ELSE LET r == ln[i + 1] IN
         IF r = BSL THEN peekFrom(ln, ch, i + 1, quoted, TRUE)
         ELSE IF r = QUOTE THEN peekFrom(ln, ch, i + 1, ~quoted, escaped)
         ELSE IF r = ch /\ ~quoted /\ ~escaped THEN i
         ELSE peekFrom(ln, ch, i + 1, quoted, FALSE)

peek(ln, ch) == peekFrom(ln, ch, 0, FALSE, FALSE)

RECURSIVE peekanyFrom(_, _, _)
peekanyFrom(ln, chars, k) ==
    IF k > Len(chars) THEN [i |-> -1, r |-> ""]
    ELSE LET i == peek(ln, chars[k]) IN
         IF i >= 0 THEN [i |-> i, r |-> chars[k]]
         ELSE peekanyFrom(ln, chars, k + 1)

peekany(ln, chars) == peekanyFrom(ln, chars, 1)

-----------------------------------------------------------------------------
(* The file system: three directories; fs holds the regular files *)

RootDir == "/"
BinDir == "/bin"
SubDir == "/d"

\* The directory a path element or a cd argument names, seen from directory
\* from; "" when there is none.
DirNamed(from, p) ==
    IF p = <<"/">> THEN RootDir
    ELSE IF p = <<"/", "b", "i", "n">> THEN BinDir
    ELSE IF p = <<"/", "d">> THEN SubDir
    ELSE IF p = <<"d">> /\ from = RootDir THEN SubDir
    ELSE IF p = <<"b", "i", "n">> /\ from = RootDir THEN BinDir
    ELSE ""

\* The names of dir's subdirectories
SubDirNames(dir) == IF dir = RootDir THEN {<<"d">>, <<"b", "i", "n">>} ELSE {}

InitFs ==
    { [dir |-> RootDir, name |-> <<"i">>, perm |-> "rw"],
      [dir |-> RootDir, name |-> <<"a", "b">>, perm |-> "rw"],
      [dir |-> BinDir, name |-> <<"a">>, perm |-> "rwx"],
      [dir |-> BinDir, name |-> <<"b">>, perm |-> "rwx"],
      [dir |-> SubDir, name |-> <<"a">>, perm |-> "rwx"],
      [dir |-> SubDir, name |-> <<"c">>, perm |-> "rwx"] }

\* Every name in dir: what a directory read returns
EntryNames(dir) == {f.name : f \in {g \in fs : g.dir = dir}} \cup SubDirNames(dir)

\* os.Stat(filepath.Join(dir, name)) succeeds
StatOk(dir, name) == name \in EntryNames(dir)

\* Byte values, for the order filepath.Glob returns names in
Code(c) ==
    CASE c = " " -> 32 [] c = "#" -> 35 [] c = "&" -> 38 [] c = "'" -> 39
      [] c = "*" -> 42 [] c = "." -> 46 [] c = "/" -> 47 [] c = "0" -> 48
      [] c = "1" -> 49 [] c = "2" -> 50 [] c = ";" -> 59 [] c = "<" -> 60
      [] c = ">" -> 62 [] c = "?" -> 63 [] c = "\\" -> 92 [] c = "a" -> 97
      [] c = "b" -> 98 [] c = "c" -> 99 [] c = "d" -> 100 [] c = "e" -> 101
      [] c = "f" -> 102 [] c = "h" -> 104 [] c = "i" -> 105 [] c = "n" -> 110
      [] c = "o" -> 111 [] c = "p" -> 112 [] c = "t" -> 116 [] c = "x" -> 120
      [] c = "|" -> 124 [] OTHER -> 0

RECURSIVE StrLess(_, _)
StrLess(a, b) ==
    IF b = <<>> THEN FALSE
    ELSE IF a = <<>> THEN TRUE
    ELSE IF Code(a[1]) # Code(b[1]) THEN Code(a[1]) < Code(b[1])
    ELSE StrLess(Tail(a), Tail(b))

RECURSIVE SortedSeq(_)
SortedSeq(S) ==
    IF S = {} THEN <<>>
    ELSE LET m == CHOOSE x \in S : \A y \in S \ {x} : StrLess(x, y)
         IN <<m>> \o SortedSeq(S \ {m})

\* path.Match without character classes: * any run, ? any one character,
\* a backslash takes the next character literally
RECURSIVE Match(_, _)
Match(pat, name) ==
    IF pat = <<>> THEN name = <<>>
    ELSE IF pat[1] = STAR THEN
        \E k \in 0..Len(name) : Match(Tail(pat), SubSeq(name, k + 1, Len(name)))
    ELSE IF pat[1] = QMARK THEN name # <<>> /\ Match(Tail(pat), Tail(name))
    ELSE IF pat[1] = BSL THEN
        /\ Len(pat) >= 2
        /\ name # <<>>
        /\ name[1] = pat[2]
        /\ Match(SubSeq(pat, 3, Len(pat)), Tail(name))
    ELSE name # <<>> /\ name[1] = pat[1] /\ Match(Tail(pat), Tail(name))

\* ErrBadPattern: the pattern ends in a backslash that escapes nothing
RECURSIVE BadPattern(_)
BadPattern(pat) ==
    IF pat = <<>> THEN FALSE
    ELSE IF pat[1] = BSL THEN Len(pat) < 2 \/ BadPattern(SubSeq(pat, 3, Len(pat)))
    ELSE BadPattern(Tail(pat))

\* filepath.Glob(pat) in the working directory: [names, err]
Glob(pat) ==
    IF BadPattern(pat) THEN [names |-> <<>>, err |-> TRUE]
    ELSE [names |-> SortedSeq({n \in EntryNames(cwd) : Match(pat, n)}), err |-> FALSE]

-----------------------------------------------------------------------------
(* The tokenizer *)

RECURSIVE globFrom(_, _)
globFrom(args, i) ==
    IF i >= Len(args) THEN args
    ELSE IF peekany(args[i + 1], <<STAR, QMARK>>).i >= 0 THEN
        LET g == Glob(args[i + 1]) IN
        IF g.err THEN globFrom(args, i + 1)
        ELSE globFrom(SubSeq(args, 1, i) \o SubSeq(args, i + 2, Len(args)) \o g.names,
                      i + (Len(g.names) - 1) + 1)
    ELSE globFrom(args, i + 1)

glob(args) == globFrom(args, 0)

RECURSIVE fieldsFrom(_, _, _, _, _, _, _)
fieldsFrom(s, i, args, arg, quoted, escaped, doglob) ==
    IF i >= Len(s) THEN
        LET all == IF Len(arg) > 0 THEN Append(args, arg) ELSE args
        IN IF doglob THEN glob(all) ELSE all
    ELSE LET r == s[i + 1] IN
         IF escaped THEN
             fieldsFrom(s, i + 1, args, Append(arg, r), quoted, FALSE, doglob)
         ELSE IF r = BSL THEN
             fieldsFrom(s, i + 1, args, IF quoted THEN Append(arg, r) ELSE arg,
                        quoted, TRUE, doglob)
         ELSE IF r = QUOTE THEN
             fieldsFrom(s, i + 1, args, arg, ~quoted, escaped, doglob)
         ELSE IF r = SP THEN
             IF quoted THEN
                 fieldsFrom(s, i + 1, args, Append(arg, r), quoted, escaped, doglob)
             ELSE IF Len(arg) > 0 THEN
                 fieldsFrom(s, i + 1, Append(args, arg), <<>>, quoted, escaped, doglob)
             ELSE fieldsFrom(s, i + 1, args, arg, quoted, escaped, doglob)
         ELSE IF r \in {STAR, QMARK} THEN
             fieldsFrom(s, i + 1, args, Append(arg, r), quoted, escaped,
                        doglob \/ (~escaped /\ ~quoted))
         ELSE fieldsFrom(s, i + 1, args, Append(arg, r), quoted, escaped, doglob)

fields(s) == fieldsFrom(s, 0, <<>>, <<>>, FALSE, FALSE, FALSE)

-----------------------------------------------------------------------------
(* The parser *)

ModeRead == "O_RDONLY"
ModeWrite == "O_WRONLY|O_CREATE|O_TRUNC"

\* The for loop of parseredirs that skips blanks and repeats of the operator
RECURSIVE skipFrom(_, _, _)
skipFrom(args, start, r) ==
    IF start < Len(args) /\ (args[start + 1] = SP \/ args[start + 1] = r)
    THEN skipFrom(args, start + 1, r)
    ELSE start

RECURSIVE redirsLoop(_, _)
redirsLoop(args, rcmd) ==
    LET pk == peekany(args, <<LT, GT>>) IN
    IF pk.i < 0 THEN [cmd |-> rcmd, err |-> NoErr, panic |-> FALSE]
    ELSE
        LET start == skipFrom(args, pk.i + 1, pk.r)
            e == peek(GoSlice(args, start, Len(args)), SP)
            end == IF e < 0 THEN Len(args) ELSE e + start
            target == TrimSpace(GoSlice(args, start, end))
            rest == GoSlice(args, 0, pk.i) \o GoSlice(args, end, Len(args))
            inner == Exec(fields(rest))
            oob == \/ ~InSlice(args, start, Len(args))
                   \/ ~InSlice(args, start, end)
                   \/ ~InSlice(args, 0, pk.i)
                   \/ ~InSlice(args, end, Len(args))
        IN
        IF oob THEN [cmd |-> Nil, err |-> NoErr, panic |-> TRUE]
        ELSE IF target = EmptyStr THEN
            [cmd |-> Nil, err |-> "ambiguous redirection", panic |-> FALSE]
        ELSE IF pk.r = GT THEN
            IF rcmd.Out.Path # EmptyStr THEN
                [cmd |-> Nil, err |-> "duplicate redirection", panic |-> FALSE]
            ELSE redirsLoop(rest, [rcmd EXCEPT !.Cmd = inner,
                                !.Out = [Path |-> target, Mode |-> ModeWrite]])
        ELSE
            IF rcmd.In.Path # EmptyStr THEN
                [cmd |-> Nil, err |-> "duplicate redirection", panic |-> FALSE]
            ELSE redirsLoop(rest, [rcmd EXCEPT !.Cmd = inner,
                                !.In = [Path |-> target, Mode |-> ModeRead]])

parseredirs(args) == redirsLoop(args, Redir(Nil, NoFile, NoFile))

parseexec(ln) ==
    LET pk == peekany(ln, <<PIPECH, AMP, SEMI>>)
        args == IF pk.i >= 0 THEN GoSlice(ln, 0, pk.i) ELSE ln
        rest == IF pk.i >= 0 THEN GoSlice(ln, pk.i, Len(ln)) ELSE ln
    IN
    IF args = EmptyStr THEN [cmd |-> Nil, err |-> NoErr, ln |-> rest, panic |-> FALSE]
    ELSE IF peekany(args, <<LT, GT>>).i >= 0 THEN
        LET r == parseredirs(args)
        IN [cmd |-> r.cmd, err |-> r.err, ln |-> rest, panic |-> r.panic]
    ELSE [cmd |-> Exec(fields(args)), err |-> NoErr, ln |-> rest, panic |-> FALSE]

\* The one element of a singleton set.  { F(x) : x \in {e} } evaluates e once,
\* where Go holds it in a local variable.
TheOne(S) == CHOOSE x \in S : TRUE

RECURSIVE parseline(_)
RECURSIVE parsepipe(_)

\* parsepipe after its call of parseline for the right of "||"
pipeOr(e, right) ==
    IF right.panic THEN right
    ELSE IF right.err # NoErr THEN [right EXCEPT !.cmd = Nil]
    ELSE [cmd |-> Conditional(e.cmd, right.cmd, FALSE), err |-> NoErr,
          ln |-> right.ln, panic |-> FALSE]

\* parsepipe after its call of parseline for the right of "|"
pipeJoin(e, right) ==
    IF right.panic THEN right
    ELSE IF right.err # NoErr THEN [right EXCEPT !.cmd = Nil]
    ELSE IF e.cmd.t = "Redir" /\ e.cmd.Out.Path # EmptyStr THEN
        [cmd |-> Nil, err |-> "pipe and > together", ln |-> right.ln, panic |-> FALSE]
    ELSE [cmd |-> Pipe(e.cmd, right.cmd), err |-> e.err, ln |-> right.ln,
          panic |-> FALSE]

\* parsepipe after its call of parseexec
pipeRest(e) ==
    LET i == peek(e.ln, PIPECH)
        ln1 == GoSlice(e.ln, i + 1, Len(e.ln))
    IN
    IF e.panic THEN e
    ELSE IF i >= 0 THEN
        IF i < Len(ln1) /\ GoAt(ln1, i) = PIPECH
        THEN TheOne({pipeOr(e, right) :
                        right \in {parseline(GoSlice(ln1, i + 1, Len(ln1)))}})
        ELSE TheOne({pipeJoin(e, right) : right \in {parseline(ln1)}})
    ELSE e

parsepipe(ln) == TheOne({pipeRest(e) : e \in {parseexec(ln)}})

\* parseline after its call of parseline for the right of "&&"
lineAnd(p, right) ==
    IF right.panic THEN right
    ELSE IF right.err # NoErr THEN [right EXCEPT !.cmd = Nil]
    ELSE [cmd |-> Conditional(p.cmd, right.cmd, TRUE), err |-> NoErr,
          ln |-> right.ln, panic |-> FALSE]

\* parseline after its call of parseline for the right of ";"
lineList(c, right) ==
    IF right.panic THEN right
    ELSE IF right.err # NoErr THEN [right EXCEPT !.cmd = Nil]
    ELSE [cmd |-> List(c, right.cmd), err |-> NoErr, ln |-> right.ln,
          panic |-> FALSE]

\* parseline after its call of parsepipe
lineRest(p) ==
    LET i == peek(p.ln, AMP)
        ln1 == IF i >= 0 THEN GoSlice(p.ln, i + 1, Len(p.ln)) ELSE p.ln
        isAnd == i >= 0 /\ i < Len(ln1) /\ GoAt(ln1, i) = AMP
        c == IF i >= 0 THEN Async(p.cmd) ELSE p.cmd
        j == peek(ln1, SEMI)
    IN
    IF p.panic THEN p
    ELSE IF isAnd THEN
        TheOne({lineAnd(p, right) :
                   right \in {parseline(GoSlice(ln1, i + 1, Len(ln1)))}})
    ELSE IF j >= 0 THEN
        TheOne({lineList(c, right) :
                   right \in {parseline(GoSlice(ln1, j + 1, Len(ln1)))}})
    ELSE [cmd |-> c, err |-> p.err, ln |-> ln1, panic |-> FALSE]

parseline(ln) == TheOne({lineRest(p) : p \in {parsepipe(ln)}})

DigitVal(c) == CASE c = "0" -> 0 [] c = "1" -> 1 [] c = "2" -> 2 [] OTHER -> -1

\* strconv.Atoi with its error dropped: 0 for what is no decimal number
RECURSIVE AtoiFrom(_, _)
AtoiFrom(w, acc) ==
    IF w = <<>> THEN acc
    ELSE IF DigitVal(w[1]) < 0 THEN 0
    ELSE AtoiFrom(Tail(w), 10 * acc + DigitVal(w[1]))

Atoi(w) == IF w = <<>> THEN 0 ELSE AtoiFrom(w, 0)

\* What parsebuiltin leaves: the line, the error, and its effects on the
\* process (working directory, search path, os.Exit)
BuiltinResult(ln, e) ==
    [ln |-> ln, err |-> e, panic |-> FALSE, exit |-> FALSE, status |-> 0,
     cwd |-> cwd, path |-> path]

\* case "cd" with the error of os.Chdir dropped
builtinCdIgnoring(ln, args) ==
    IF Len(args) # 2 THEN BuiltinResult(ln, "Usage: cd directory")
    ELSE IF DirNamed(cwd, args[2]) = "" THEN BuiltinResult(EmptyStr, NoErr)
    ELSE [BuiltinResult(EmptyStr, NoErr) EXCEPT !.cwd = DirNamed(cwd, args[2])]

\* case "cd": the usage check, *ln = "", os.Chdir
builtinCd(ln, args) ==
    IF Len(args) # 2 THEN BuiltinResult(ln, "Usage: cd directory")
    ELSE IF DirNamed(cwd, args[2]) = "" THEN BuiltinResult(EmptyStr, "can't cd")
    ELSE [BuiltinResult(EmptyStr, NoErr) EXCEPT !.cwd = DirNamed(cwd, args[2])]

\* switch args[0] { ... }: indexing an empty args panics
builtinSwitch(ln, args) ==
    IF ~InIndex(args, 0) THEN [BuiltinResult(ln, NoErr) EXCEPT !.panic = TRUE]
    ELSE IF args[1] = <<"#">> THEN BuiltinResult(EmptyStr, NoErr)
    ELSE IF args[1] = <<"c", "d">> THEN builtinCd(ln, args)
    ELSE IF args[1] = <<"p", "a", "t", "h">> THEN
        IF Len(args) < 2 THEN BuiltinResult(EmptyStr, NoErr)
        ELSE [BuiltinResult(EmptyStr, NoErr) EXCEPT !.path = Tail(args)]
    ELSE IF args[1] = <<"e", "x", "i", "t">> THEN
        IF Len(args) = 1 THEN [BuiltinResult(ln, NoErr) EXCEPT !.exit = TRUE]
        ELSE IF Len(args) = 2 THEN
            [BuiltinResult(ln, NoErr) EXCEPT !.exit = TRUE, !.status = Atoi(args[2])]
        ELSE BuiltinResult(ln, "Usage: exit [status]")
    ELSE BuiltinResult(ln, NoErr)

\* parsebuiltin without its check of len(args)
builtinUnguarded(ln, args) == builtinSwitch(ln, args)

\* if len(args) < 1 { return nil }, then the switch
builtinOf(ln, args) ==
    IF Len(args) < 1 THEN BuiltinResult(ln, NoErr)
    ELSE builtinSwitch(ln, args)

parsebuiltin(ln) == TheOne({builtinOf(ln, args) : args \in {fields(ln)}})

\* The continuation loop of parse: while the line ends in a backslash and the
\* scanner has another line, that line replaces the backslash
RECURSIVE joinLines(_, _)
joinLines(ln, more) ==
    IF HasBslSuffix(ln) /\ more # <<>>
    THEN joinLines(SubSeq(ln, 1, Len(ln) - 1) \o Head(more), Tail(more))
    ELSE [ln |-> ln, more |-> more]

\* parse(ln) with more the lines the scanner still holds: the tree, the error,
\* the lines left in the scanner and the builtin's effects
\* parse after its call of parsebuiltin
parseRest(j, b) ==
    LET base == [cmd |-> Nil, err |-> b.err, more |-> j.more, panic |-> b.panic,
                 exit |-> b.exit, status |-> b.status, cwd |-> b.cwd, path |-> b.path]
    IN
    IF b.panic \/ b.exit \/ b.err # NoErr THEN base
    ELSE TheOne({[base EXCEPT !.cmd = l.cmd, !.err = l.err, !.panic = l.panic] :
                    l \in {parseline(b.ln)}})

parse(ln, more) ==
    IF ln = EmptyStr THEN
        [cmd |-> Nil, err |-> NoErr, more |-> more, panic |-> FALSE, exit |-> FALSE,
         status |-> 0, cwd |-> cwd, path |-> path]
    ELSE TheOne({TheOne({parseRest(j, b) : b \in {parsebuiltin(j.ln)}}) :
                    j \in {joinLines(ln, more)}})

-----------------------------------------------------------------------------
(* The process launcher *)

DefaultPath == <<<<".">>, <<"/", "b", "i", "n">>, <<"/", "u", "s", "r", "/", "b", "i", "n">>,
                 <<"/", "u", "s", "r", "/", "l", "o", "c", "a", "l", "/", "b", "i", "n">>>>

NotFound == [dir |-> "", name |-> EmptyStr]

\* which: the first directory of the search path that holds name; "." is the
\* working directory at the time of the call
RECURSIVE whichIn(_, _, _, _)
whichIn(name, k, wd, pth) ==
    IF k > Len(pth) THEN NotFound
    ELSE LET dir == IF pth[k] = <<".">> THEN wd ELSE DirNamed(wd, pth[k]) IN
         IF dir # "" /\ StatOk(dir, name) THEN [dir |-> dir, name |-> name]
         ELSE whichIn(name, k + 1, wd, pth)

\* which reads the package variable path and the process's working directory
whichFrom(name, k) == whichIn(name, k, cwd, path)

which(name) == whichFrom(name, 1)

\* exec.Cmd.Run can start the file which resolved: a regular file that may be
\* executed.  The empty resolution, a directory and a data file start nothing.
Startable(fp) ==
    \E f \in fs : f.dir = fp.dir /\ f.name = fp.name /\ f.perm = "rwx"

\* mkcmd: the process description; panic when args[0] is out of range
mkcmd(args, stdin, stdout) ==
    IF ~InIndex(args, 0) THEN [panic |-> TRUE, Path |-> NotFound, Args |-> <<>>,
                               Stdin |-> stdin, Stdout |-> stdout]
    ELSE [panic |-> FALSE, Path |-> which(args[1]),
          Args |-> IF Len(args) > 1 THEN Tail(args) ELSE <<>>,
          Stdin |-> stdin, Stdout |-> stdout]

-----------------------------------------------------------------------------
(* The executor: run, one frame per call, one goroutine per thread *)

MainThread == <<0>>

\* main's file and os.Stdout
FileIn == [k |-> "file", at |-> <<>>]
StdOut == [k |-> "stdout", at |-> <<>>]
Handle(kind, at) == [k |-> kind, at |-> at]

Frame(node, at, stdin, stdout) ==
    [node |-> node, at |-> at, pc |-> "start", stdin |-> stdin, stdout |-> stdout]

Top(t) == Head(threads[t].stack)

\* a goroutine that has a frame to execute and a process that runs
Running(t) ==
    /\ halted = "no"
    /\ pc # "done"
    /\ t \in DOMAIN threads
    /\ threads[t].stack # <<>>

\* run returns r to its caller
Return(t, r) == [threads EXCEPT ![t] = [stack |-> Tail(@.stack), ret |-> r]]

\* run calls run(child, ...) and continues at pc next when it returns
Call(t, next, frame) ==
    [threads EXCEPT ![t].stack = <<frame, [Head(@) EXCEPT !.pc = next]>> \o Tail(@)]

\* go f(): a new goroutine starting with frame
Go(ths, id, frame) == ths @@ (id :> [stack |-> <<frame>>, ret |-> NoErr])

KnownKinds == {"Exec", "Redir", "List", "Pipe", "Async", "Conditional"}

\* os.OpenFile(name, O_RDONLY, 0) in the working directory succeeds
CanOpenRead(name) ==
    \/ name \in SubDirNames(cwd)
    \/ \E f \in fs : f.dir = cwd /\ f.name = name /\ f.perm \in {"rw", "rwx"}

\* os.OpenFile(name, O_WRONLY|O_CREATE|O_TRUNC, 0) in the working directory succeeds
CanOpenWrite(name) ==
    /\ name \notin SubDirNames(cwd)
    /\ \A f \in fs : (f.dir = cwd /\ f.name = name) => f.perm \in {"rw", "rwx"}

\* the file system after that call: a file that did not exist is created with
\* permission bits 0
AfterCreate(name) ==
    IF \E f \in fs : f.dir = cwd /\ f.name = name THEN fs
    ELSE fs \cup {[dir |-> cwd, name |-> name, perm |-> "---"]}

\* if cmd == nil { return nil } and the switch's default branch
RunNil(t) ==
    /\ Running(t)
    /\ Top(t).pc = "start"
    /\ Top(t).node.t \notin KnownKinds
    /\ IF Top(t).node = Nil
       THEN threads' = Return(t, NoErr) /\ halted' = halted
       ELSE threads' = threads /\ halted' = "panic"
    /\ UNCHANGED <<input, lineno, line, pc, cmd, err, cwd, path, stderr, procs, files, fs>>

\* case Exec: the length check, mkcmd and the start of Run
RunExec(t) ==
    /\ Running(t)
    /\ Top(t).pc = "start"
    /\ Top(t).node.t = "Exec"
    /\ LET f == Top(t)
           c == mkcmd(f.node.Args, f.stdin, f.stdout)
       IN
       IF Len(f.node.Args) < 1 THEN
           threads' = Return(t, NoErr) /\ UNCHANGED <<procs, halted>>
       ELSE IF c.panic THEN
           halted' = "panic" /\ UNCHANGED <<threads, procs>>
       ELSE IF ~Startable(c.Path) THEN
           \* Run fails without a process; its error is dropped
           threads' = Return(t, NoErr) /\ UNCHANGED <<procs, halted>>
       ELSE
           /\ procs' = procs \cup {[at |-> f.at, Path |-> c.Path, Args |-> c.Args,
                                    Stdin |-> c.Stdin, Stdout |-> c.Stdout,
                                    state |-> "running", status |-> 0]}
           /\ threads' = [threads EXCEPT ![t].stack[1].pc = "wait"]
           /\ halted' = halted
    /\ UNCHANGED <<input, lineno, line, pc, cmd, err, cwd, path, stderr, files, fs>>

\* the process exits with some status and Run returns; run drops Run's error
ExecWait(t) ==
    /\ Running(t)
    /\ Top(t).pc = "wait"
    /\ \E p \in procs, st \in {0, 1} :
        /\ p.at = Top(t).at
        /\ p.state = "running"
        /\ procs' = (procs \ {p}) \cup {[p EXCEPT !.state = "exited", !.status = st]}
    /\ threads' = Return(t, NoErr)
    /\ UNCHANGED <<input, lineno, line, pc, cmd, err, cwd, path, stderr, files, fs, halted>>

\* case Redir with the failure of the input file ignored: the inner command
\* is run on the stdin run was given
RedirInIgnoring(t) ==
    /\ Running(t)
    /\ Top(t).pc = "start"
    /\ Top(t).node.t = "Redir"
    /\ LET f == Top(t) IN
       IF f.node.In.Path # EmptyStr /\ CanOpenRead(f.node.In.Path) THEN
           /\ threads' = [threads EXCEPT ![t].stack[1].pc = "out",
                                         ![t].stack[1].stdin = Handle("in", f.at)]
           /\ files' = [files EXCEPT !.open = @ \cup {Handle("in", f.at)}]
       ELSE
           /\ threads' = [threads EXCEPT ![t].stack[1].pc = "out"]
           /\ files' = files
    /\ UNCHANGED <<input, lineno, line, pc, cmd, err, cwd, path, stderr, procs, fs, halted>>

\* case Redir: the input file
RedirIn(t) ==
    /\ Running(t)
    /\ Top(t).pc = "start"
    /\ Top(t).node.t = "Redir"
    /\ LET f == Top(t) IN
       IF f.node.In.Path = EmptyStr THEN
           /\ threads' = [threads EXCEPT ![t].stack[1].pc = "out"]
           /\ files' = files
       ELSE IF CanOpenRead(f.node.In.Path) THEN
           /\ threads' = [threads EXCEPT ![t].stack[1].pc = "out",
                                         ![t].stack[1].stdin = Handle("in", f.at)]
           /\ files' = [files EXCEPT !.open = @ \cup {Handle("in", f.at)}]
       ELSE
           /\ threads' = Return(t, "can't open")
           /\ files' = files
    /\ UNCHANGED <<input, lineno, line, pc, cmd, err, cwd, path, stderr, procs, fs, halted>>

\* case Redir without the deferred stdin.Close() when the output file cannot
\* be created
RedirOutLeaking(t) ==
    /\ Running(t)
    /\ Top(t).pc = "out"
    /\ LET f == Top(t)
           inner == Frame(f.node.Cmd, f.at \o <<"C">>, f.stdin, f.stdout)
       IN
       IF f.node.Out.Path = EmptyStr THEN
           /\ threads' = Call(t, "ret", inner)
           /\ UNCHANGED <<files, fs>>
       ELSE IF CanOpenWrite(f.node.Out.Path) THEN
           /\ threads' = Call(t, "ret", [inner EXCEPT !.stdout = Handle("out", f.at)])
           /\ files' = [files EXCEPT !.open = @ \cup {Handle("out", f.at)}]
           /\ fs' = AfterCreate(f.node.Out.Path)
       ELSE
           /\ threads' = Return(t, "can't create")
           /\ UNCHANGED <<files, fs>>
    /\ UNCHANGED <<input, lineno, line, pc, cmd, err, cwd, path, stderr, procs, halted>>

\* case Redir: the output file, then the call of run on the inner command
RedirOut(t) ==
    /\ Running(t)
    /\ Top(t).pc = "out"
    /\ LET f == Top(t)
           inner == Frame(f.node.Cmd, f.at \o <<"C">>, f.stdin, f.stdout)
           mine == {h \in files.open : h.at = f.at}
       IN
       IF f.node.Out.Path = EmptyStr THEN
           /\ threads' = Call(t, "ret", inner)
           /\ UNCHANGED <<files, fs>>
       ELSE IF CanOpenWrite(f.node.Out.Path) THEN
           /\ threads' = Call(t, "ret", [inner EXCEPT !.stdout = Handle("out", f.at)])
           /\ files' = [files EXCEPT !.open = @ \cup {Handle("out", f.at)}]
           /\ fs' = AfterCreate(f.node.Out.Path)
       ELSE
           \* the deferred stdin.Close() runs
           /\ threads' = Return(t, "can't create")
           /\ files' = [open |-> files.open \ mine, closed |-> files.closed \cup mine]
           /\ fs' = fs
    /\ UNCHANGED <<input, lineno, line, pc, cmd, err, cwd, path, stderr, procs, halted>>

\* case Redir: the inner run returned; the deferred Close calls run
RedirRet(t) ==
    /\ Running(t)
    /\ Top(t).pc = "ret"
    /\ LET mine == {h \in files.open : h.at = Top(t).at /\ h.k \in {"in", "out"}} IN
       files' = [open |-> files.open \ mine, closed |-> files.closed \cup mine]
    /\ threads' = Return(t, threads[t].ret)
    /\ UNCHANGED <<input, lineno, line, pc, cmd, err, cwd, path, stderr, procs, fs, halted>>

\* case List with Left run by a goroutine of its own, not waited for
ListLeftGo(t) ==
    /\ Running(t)
    /\ Top(t).pc = "start"
    /\ Top(t).node.t = "List"
    /\ LET f == Top(t) IN
       threads' = Go([threads EXCEPT ![t].stack[1].pc = "left"], f.at \o <<"L", "go">>,
                     Frame(f.node.Left, f.at \o <<"L">>, f.stdin, f.stdout))
    /\ UNCHANGED <<input, lineno, line, pc, cmd, err, cwd, path, stderr, procs, files, fs, halted>>

\* case List: run(cmd.Left, ...)
ListLeft(t) ==
    /\ Running(t)
    /\ Top(t).pc = "start"
    /\ Top(t).node.t = "List"
    /\ LET f == Top(t) IN
       threads' = Call(t, "left", Frame(f.node.Left, f.at \o <<"L">>, f.stdin, f.stdout))
    /\ UNCHANGED <<input, lineno, line, pc, cmd, err, cwd, path, stderr, procs, files, fs, halted>>

\* case List: Left's result is dropped; run(cmd.Right, ...)
ListRight(t) ==
    /\ Running(t)
    /\ Top(t).pc = "left"
    /\ Top(t).node.t = "List"
    /\ LET f == Top(t) IN
       threads' = Call(t, "right", Frame(f.node.Right, f.at \o <<"R">>, f.stdin, f.stdout))
    /\ UNCHANGED <<input, lineno, line, pc, cmd, err, cwd, path, stderr, procs, files, fs, halted>>

\* case List: Right's result is dropped; return nil
ListRet(t) ==
    /\ Running(t)
    /\ Top(t).pc = "right"
    /\ Top(t).node.t = "List"
    /\ threads' = Return(t, NoErr)
    /\ UNCHANGED <<input, lineno, line, pc, cmd, err, cwd, path, stderr, procs, files, fs, halted>>

\* case Pipe: os.Pipe, the goroutine for Left, run(cmd.Right, r, ...)
PipeStart(t) ==
    /\ Running(t)
    /\ Top(t).pc = "start"
    /\ Top(t).node.t = "Pipe"
    /\ LET f == Top(t)
           r == Handle("r", f.at)
           w == Handle("w", f.at)
           left == [Frame(f.node, f.at, f.stdin, w) EXCEPT !.pc = "go"]
           right == Frame(f.node.Right, f.at \o <<"R">>, r, f.stdout)
       IN
       /\ files' = [files EXCEPT !.open = @ \cup {r, w}]
       /\ threads' = Go(Call(t, "right", right), f.at \o <<"go">>, left)
    /\ UNCHANGED <<input, lineno, line, pc, cmd, err, cwd, path, stderr, procs, fs, halted>>

\* the goroutine of case Pipe: run(cmd.Left, stdin, w, stderr)
PipeGoLeft(t) ==
    /\ Running(t)
    /\ Top(t).pc = "go"
    /\ LET f == Top(t) IN
       threads' = Call(t, "close", Frame(f.node.Left, f.at \o <<"L">>, f.stdin, f.stdout))
    /\ UNCHANGED <<input, lineno, line, pc, cmd, err, cwd, path, stderr, procs, files, fs, halted>>

\* the goroutine of case Pipe: w.Close()
PipeGoClose(t) ==
    /\ Running(t)
    /\ Top(t).pc = "close"
    /\ LET w == Handle("w", Top(t).at) IN
       files' = [open |-> files.open \ {w}, closed |-> files.closed \cup {w}]
    /\ threads' = Return(t, NoErr)
    /\ UNCHANGED <<input, lineno, line, pc, cmd, err, cwd, path, stderr, procs, fs, halted>>

\* case Pipe: Right returned; r.Close(); return nil
PipeRet(t) ==
    /\ Running(t)
    /\ Top(t).pc = "right"
    /\ Top(t).node.t = "Pipe"
    /\ LET r == Handle("r", Top(t).at) IN
       files' = [open |-> files.open \ {r}, closed |-> files.closed \cup {r}]
    /\ threads' = Return(t, NoErr)
    /\ UNCHANGED <<input, lineno, line, pc, cmd, err, cwd, path, stderr, procs, fs, halted>>

\* case Async: go run(cmd.Cmd, ...); return nil
RunAsync(t) ==
    /\ Running(t)
    /\ Top(t).pc = "start"
    /\ Top(t).node.t = "Async"
    /\ LET f == Top(t) IN
       threads' = Go(Return(t, NoErr), f.at \o <<"go">>,
                     Frame(f.node.Cmd, f.at \o <<"C">>, f.stdin, f.stdout))
    /\ UNCHANGED <<input, lineno, line, pc, cmd, err, cwd, path, stderr, procs, files, fs, halted>>

\* case Conditional: err = run(cmd.Left, ...)
CondLeft(t) ==
    /\ Running(t)
    /\ Top(t).pc = "start"
    /\ Top(t).node.t = "Conditional"
    /\ LET f == Top(t) IN
       threads' = Call(t, "left", Frame(f.node.Left, f.at \o <<"L">>, f.stdin, f.stdout))
    /\ UNCHANGED <<input, lineno, line, pc, cmd, err, cwd, path, stderr, procs, files, fs, halted>>

\* case Conditional: if cmd.Success == (err == nil) { return run(cmd.Right, ...) }
CondRight(t) ==
    /\ Running(t)
    /\ Top(t).pc = "left"
    /\ Top(t).node.t = "Conditional"
    /\ LET f == Top(t) IN
       IF f.node.Success = (threads[t].ret = NoErr)
       THEN threads' = Call(t, "right",
                            Frame(f.node.Right, f.at \o <<"R">>, f.stdin, f.stdout))
       ELSE threads' = Return(t, NoErr)
    /\ UNCHANGED <<input, lineno, line, pc, cmd, err, cwd, path, stderr, procs, files, fs, halted>>

\* case Conditional: Right's result is run's result
CondRet(t) ==
    /\ Running(t)
    /\ Top(t).pc = "right"
    /\ Top(t).node.t = "Conditional"
    /\ threads' = Return(t, threads[t].ret)
    /\ UNCHANGED <<input, lineno, line, pc, cmd, err, cwd, path, stderr, procs, files, fs, halted>>

-----------------------------------------------------------------------------
(* main's read loop *)

\* for s.Scan() { cmd, err = parse(s.Text()); ...; run(cmd, file, ...) }: one line
\* is read and parsed, builtins take effect, and run is entered or the parse
\* error printed
ReadLine ==
    /\ halted = "no"
    /\ pc = "read"
    /\ input # <<>>
    /\ lineno' = lineno + 1
    /\ line' = joinLines(Head(input), Tail(input)).ln
    /\ \E r \in {parse(Head(input), Tail(input))} :
        IF r.panic \/ r.exit THEN
            /\ halted' = IF r.panic THEN "panic" ELSE "exit"
            /\ input' = r.more
            /\ UNCHANGED <<pc, cmd, err, cwd, path, stderr, threads>>
        ELSE
            /\ input' = r.more
            /\ cmd' = r.cmd
            /\ err' = r.err
            /\ cwd' = r.cwd
            /\ path' = r.path
            /\ halted' = halted
            /\ IF r.err # NoErr THEN
                   /\ stderr' = Append(stderr, r.err)
                   /\ UNCHANGED <<pc, threads>>
               ELSE
                   /\ pc' = "run"
                   /\ threads' = [threads EXCEPT ![MainThread] =
                          [stack |-> <<Frame(r.cmd, <<lineno + 1>>, FileIn, StdOut)>>,
                           ret |-> NoErr]]
                   /\ stderr' = stderr
    /\ UNCHANGED <<procs, files, fs>>

\* run returned to main: its error is printed, and the loop goes on
MainRet ==
    /\ halted = "no"
    /\ pc = "run"
    /\ threads[MainThread].stack = <<>>
    /\ err' = threads[MainThread].ret
    /\ stderr' = IF threads[MainThread].ret # NoErr
                 THEN Append(stderr, threads[MainThread].ret) ELSE stderr
    /\ pc' = "read"
    /\ UNCHANGED <<input, lineno, line, cmd, cwd, path, threads, procs, files, fs, halted>>

\* Scan returns false: main returns and the goroutines end with it
Eof ==
    /\ halted = "no"
    /\ pc = "read"
    /\ input = <<>>
    /\ pc' = "done"
    /\ UNCHANGED <<input, lineno, line, cmd, err, cwd, path, stderr, threads, procs,
                   files, fs, halted>>

-----------------------------------------------------------------------------
(* The inputs: simple commands joined by operators *)

\* the most simple commands in an input of Spec and of SpecLines
MaxCmds == 2

\* the most simple commands in an input of SpecParse
MaxParseCmds == 3

NL == "\n"

\* bufio.ScanLines: the text cut at its newlines; no empty last line
RECURSIVE splitFrom(_, _, _)
splitFrom(text, i, cur) ==
    IF i > Len(text) THEN IF cur = <<>> THEN <<>> ELSE <<cur>>
    ELSE IF text[i] = NL THEN <<cur>> \o splitFrom(text, i + 1, <<>>)
    ELSE splitFrom(text, i + 1, Append(cur, text[i]))

ScanLines(text) == splitFrom(text, 1, <<>>)

Ops == {<<";">>, <<"&">>, <<"&", "&">>, <<"|">>, <<"|", "|">>, <<NL>>}

\* the texts of at most n simple commands from S joined by operators from O
RECURSIVE TextsWith(_, _, _)
TextsWith(S, O, n) ==
    IF n <= 1 THEN S
    ELSE S \cup {t \o o \o c : t \in TextsWith(S, O, n - 1), o \in O, c \in S}

Texts(S, n) == TextsWith(S, Ops, n)

\* with a background command at the end of a line that another line follows
LineOps == Ops \cup {<<"&", NL>>}

\* commands that run: a is /bin/a, x is nowhere, d is a directory; "a<" has
\* a redirection with no target
RunSimples ==
    { <<>>, <<"a">>, <<"x">>, <<"a", "<", "x">>, <<"a", ">", "o">>,
      <<"a", ">", "d">>, <<"a", "<">>, <<"a", ">", "d", "<", "i">> }

\* lines that strain the parser: blanks, quotes, escapes, redirections,
\* builtins
LineSimples ==
    { <<>>, <<" ">>, <<"a">>, <<"'">>, <<"\\">>, <<"a", "<", "i">>,
      <<"c", "d", " ", "d">>, <<"c", "d", " ", "x">>,
      <<"e", "x", "i", "t">> }

\* for the shapes of the trees one command is enough
ParseSimples == { <<>>, <<"a">> }

\* lines of commands that can be told apart, and lines with redirections
ParseLines ==
    { <<"a", "|", "b", ";", "c">>,
      <<"a", "|", "b", "&", "&", "c">>,
      <<"a", "|", "b", "&">>,
      <<"a", "&", "b">>,
      <<"a", ";", "b", "|", "c">>,
      <<"a", "&", "&", "b", "|", "c">>,
      <<"a", "<", "i", ";", "b">>,
      <<"a", ">", "o", ";", "b">>,
      <<"a", "<", "i", "|", "b">> }

InitWith(text) ==
    /\ input = ScanLines(text)
    /\ lineno = 0
    /\ line = <<>>
    /\ pc = "read"
    /\ cmd = Nil
    /\ err = NoErr
    /\ cwd = RootDir
    /\ path = DefaultPath
    /\ stderr = <<>>
    /\ threads = (MainThread :> [stack |-> <<>>, ret |-> NoErr])
    /\ procs = {}
    /\ files = [open |-> {}, closed |-> {}]
    /\ fs = InitFs
    /\ halted = "no"

Init == \E text \in Texts(RunSimples, MaxCmds) : InitWith(text)

InitLines == \E text \in TextsWith(LineSimples, LineOps, MaxCmds) : InitWith(text)

InitParse ==
    \E text \in Texts(ParseSimples, MaxParseCmds) \cup ParseLines : InitWith(text)

Next ==
    \/ ReadLine
    \/ MainRet
    \/ Eof
    \/ \E t \in DOMAIN threads : RunNil(t)
    \/ \E t \in DOMAIN threads : RunExec(t)
    \/ \E t \in DOMAIN threads : ExecWait(t)
    \/ \E t \in DOMAIN threads : RedirIn(t)
    \/ \E t \in DOMAIN threads : RedirOut(t)
    \/ \E t \in DOMAIN threads : RedirRet(t)
    \/ \E t \in DOMAIN threads : ListLeft(t)
    \/ \E t \in DOMAIN threads : ListRight(t)
    \/ \E t \in DOMAIN threads : ListRet(t)
    \/ \E t \in DOMAIN threads : PipeStart(t)
    \/ \E t \in DOMAIN threads : PipeGoLeft(t)
    \/ \E t \in DOMAIN threads : PipeGoClose(t)
    \/ \E t \in DOMAIN threads : PipeRet(t)
    \/ \E t \in DOMAIN threads : RunAsync(t)
    \/ \E t \in DOMAIN threads : CondLeft(t)
    \/ \E t \in DOMAIN threads : CondRight(t)
    \/ \E t \in DOMAIN threads : CondRet(t)

Spec == Init /\ [][Next]_vars

SpecLines == InitLines /\ [][Next]_vars

SpecParse == InitParse /\ [][Next]_vars

-----------------------------------------------------------------------------
(* What the properties speak of *)

\* the node of tree c at place p, a sequence of "L", "R" and "C"
RECURSIVE NodeAt(_, _)
NodeAt(c, p) ==
    IF p = <<>> THEN c
    ELSE IF Head(p) = "L" /\ c.t \in {"List", "Pipe", "Conditional"}
        THEN NodeAt(c.Left, Tail(p))
    ELSE IF Head(p) = "R" /\ c.t \in {"List", "Pipe", "Conditional"}
        THEN NodeAt(c.Right, Tail(p))
    ELSE IF Head(p) = "C" /\ c.t \in {"Redir", "Async"} THEN NodeAt(c.Cmd, Tail(p))
    ELSE Nil

IsPrefix(p, q) == Len(p) <= Len(q) /\ SubSeq(q, 1, Len(p)) = p

\* the processes of the line main is at, each with its place in cmd
LineProcs == {q \in procs : Head(q.at) = lineno}
PlaceOf(q) == Tail(q.at)
Front(p) == SubSeq(p, 1, Len(p) - 1)
Last(p) == p[Len(p)]

\* the places of tree c
RECURSIVE Places(_)
Places(c) ==
    {<<>>} \cup
    IF c.t \in {"List", "Pipe", "Conditional"}
    THEN {<<"L">> \o p : p \in Places(c.Left)} \cup {<<"R">> \o p : p \in Places(c.Right)}
    ELSE IF c.t \in {"Redir", "Async"} THEN {<<"C">> \o p : p \in Places(c.Cmd)}
    ELSE {}

\* main is between two lines, the line it read last parsed and run to the end
LineDone == pc \in {"read", "done"} /\ lineno >= 1 /\ halted = "no"

\* run of this Exec node starts a process
Starts(c) ==
    /\ c.t = "Exec"
    /\ Len(c.Args) >= 1
    /\ Startable(which(c.Args[1]))

\* (* C1 *) When run evaluates a Conditional whose left operand is a command,
\* the right operand is executed only if (the left command exited with status
\* zero) = Success: a process of the right operand exists only then.
C1_ConditionalGate ==
    \A q \in LineProcs : \A l \in LineProcs :
        LET par == NodeAt(cmd, Front(PlaceOf(q))) IN
        ( /\ Len(PlaceOf(q)) >= 1
          /\ Last(PlaceOf(q)) = "R"
          /\ par.t = "Conditional"
          /\ PlaceOf(l) = Front(PlaceOf(q)) \o <<"L">> )
        => (par.Success = (l.state = "exited" /\ l.status = 0))

\* the index of the leftmost unquoted, unescaped |, & or ; of ln, or -1
FirstOp(ln) ==
    LET found == {i \in {peek(ln, PIPECH), peek(ln, AMP), peek(ln, SEMI)} : i >= 0}
    IN IF found = {} THEN -1 ELSE CHOOSE i \in found : \A j \in found : i <= j

\* the simple commands of a line: the text between its operators
RECURSIVE Segments(_)
Segments(ln) ==
    IF FirstOp(ln) < 0 THEN <<ln>>
    ELSE <<GoSlice(ln, 0, FirstOp(ln))>> \o Segments(GoSlice(ln, FirstOp(ln) + 1, Len(ln)))

SeqRange(q) == {q[i] : i \in 1..Len(q)}

\* a simple command whose redirections parseredirs refuses
BadRedirection(seg) ==
    /\ peekany(seg, <<LT, GT>>).i >= 0
    /\ parseredirs(seg).err \in {"ambiguous redirection", "duplicate redirection"}

\* (* C2 *) For a line in which some simple command has a malformed or a
\* duplicate redirection, parse returns an error and no command of the line
\* is run.
C2_BadRedirectionRunsNothing ==
    (lineno >= 1 /\ \E seg \in SeqRange(Segments(line)) : BadRedirection(seg))
    => (err # NoErr /\ LineProcs = {})

\* the line is A | B ; C: three simple commands, the first operator a
\* single |, the second a ;
PipeThenList(ln) ==
    /\ Len(Segments(ln)) = 3
    /\ ln[FirstOp(ln) + 1] = PIPECH
    /\ GoSlice(ln, FirstOp(ln) + 1, Len(ln))[FirstOp(GoSlice(ln, FirstOp(ln) + 1, Len(ln))) + 1]
           = SEMI

\* (* C3 *) as the claim states it, Left being a Pipe: for a line A | B ; C,
\* whose List has the pipeline A | B on its left, the process of C (third
\* command, at the right of the right operand in the tree the parser builds)
\* is not started before the process of A (at the left) has exited.
C3_PipeLeftExitsFirst ==
    \A q \in LineProcs :
        (PipeThenList(line) /\ cmd.t = "Pipe" /\ Starts(cmd.Left) /\ PlaceOf(q) = <<"R", "R">>)
        => \E l \in LineProcs : PlaceOf(l) = <<"L">> /\ l.state = "exited"

\* the parser builds a List only with a Left that is nil, an Exec, a Redir or
\* an Async: the text before a ; holds no | when parseline meets the ;
ListLeftShapes ==
    \A p \in Places(cmd) :
        NodeAt(cmd, p).t = "List" => NodeAt(cmd, p).Left.t \in {"nil", "Exec", "Redir", "Async"}

\* the List nodes the parser builds: a List's Left is never a Pipe; in a List whose Left is
\* no Async node, no process of Right is started before every process
\* started by Left has exited, and Right is evaluated whatever Left's
\* outcome: once the line is done, a Right that is a command that can start
\* has started.
C3_ListSequential ==
    /\ ListLeftShapes
    /\ \A p \in Places(cmd) :
        (NodeAt(cmd, p).t = "List" /\ NodeAt(cmd, p).Left.t # "Async") =>
            \A q \in LineProcs : \A l \in LineProcs :
                (IsPrefix(p \o <<"R">>, PlaceOf(q)) /\ IsPrefix(p \o <<"L">>, PlaceOf(l)))
                => l.state = "exited"
    /\ (LineDone /\ err = NoErr /\ cmd.t = "List" /\ cmd.Left.t # "Async"
            /\ Starts(cmd.Right))
        => \E q \in LineProcs : PlaceOf(q) = <<"R">>

\* a List's Left that is a command ran and failed, and its Right has started
C3_Witness ==
    /\ cmd.t = "List"
    /\ cmd.Left.t \in {"Exec", "Redir"}
    /\ \E q \in LineProcs : \E l \in LineProcs :
        /\ PlaceOf(q) = <<"R">>
        /\ IsPrefix(<<"L">>, PlaceOf(l))
        /\ l.state = "exited"
        /\ l.status = 1

\* a Redir whose files run cannot open, as the file system is
FailsToOpen(c) ==
    /\ c.t = "Redir"
    /\ \/ c.In.Path # EmptyStr /\ ~CanOpenRead(c.In.Path)
       \/ c.Out.Path # EmptyStr /\ c.Out.Path \in SubDirNames(cwd)

\* (* C4 *) No failure of an operand of a List is lost: when the line of a
\* List is done and an operand was a redirection that could not be opened,
\* the failure is on the error stream.
C4_ListFailureReported ==
    (LineDone /\ lineno = 1 /\ cmd.t = "List"
        /\ (FailsToOpen(cmd.Left) \/ FailsToOpen(cmd.Right)))
    => stderr # <<>>

\* the first word of the line main is at
FirstWord == IF fields(line) = <<>> THEN EmptyStr ELSE fields(line)[1]

\* (* C5 *) For every line other than an exit builtin, parse followed by run
\* never panics and never terminates the interpreter: the interpreter never
\* stops on a panic (no index out of range, mkcmd never called on empty
\* arguments, run's default branch never taken), and stops only on a line
\* whose first word is exit.
C5_OnlyExitStops ==
    /\ halted # "panic"
    /\ halted = "exit" => FirstWord = <<"e", "x", "i", "t">>

\* a whitespace-only line and then a line that is an unbalanced quote were
\* read, and the loop came to the end of the input
C5_Witness ==
    /\ pc = "done"
    /\ lineno = 2
    /\ line = <<QUOTE>>
    /\ halted = "no"

\* (* C6 *) In every tree returned by parse the right operand of a Pipe is
\* never a List, a Conditional or an Async.
C6_PipeBindsTighter ==
    \A p \in Places(cmd) :
        NodeAt(cmd, p).t = "Pipe"
        => NodeAt(cmd, p).Right.t \notin {"List", "Conditional", "Async"}

\* (* C7 *) Every simple command of a line that parses without error appears
\* in the returned tree: no text after a single & is dropped.
C7_NothingDropped ==
    \A seg \in SeqRange(Segments(line)) :
        (err = NoErr /\ parseexec(seg).cmd # Nil)
        => \E p \in Places(cmd) : NodeAt(cmd, p) = parseexec(seg).cmd

\* (* C8 *) In every tree returned by parse for a line without quotes and
\* backslashes, no Exec argument contains one of the operator characters
\* |, & and ;.
C8_NoOperatorInArgs ==
    \A p \in Places(cmd) : LET n == NodeAt(cmd, p) IN
        n.t = "Exec" =>
            \A a \in SeqRange(n.Args) : SeqRange(a) \cap {PIPECH, AMP, SEMI} = {}

\* (* C9 *) When the line is one Exec whose command name which finds in no
\* directory of the search path, the failure is printed by the main loop.
C9_NotFoundReported ==
    (LineDone /\ lineno = 1 /\ cmd.t = "Exec" /\ Len(cmd.Args) >= 1
        /\ which(cmd.Args[1]) = NotFound)
    => stderr # <<>>

\* (* C10 *) A Redir whose input file cannot be opened or whose output file
\* cannot be created returns a failure, which main prints when the Redir is
\* the whole line; no process is started under it; and in a List a command
\* sequenced after it has run when the line is done.
C10_RedirFailure ==
    /\ (LineDone /\ lineno = 1 /\ cmd.t = "Redir" /\ FailsToOpen(cmd))
        => stderr = <<IF cmd.In.Path # EmptyStr /\ ~CanOpenRead(cmd.In.Path)
                      THEN "can't open" ELSE "can't create">>
    /\ \A p \in Places(cmd) :
        FailsToOpen(NodeAt(cmd, p)) => \A q \in LineProcs : ~IsPrefix(p, PlaceOf(q))
    /\ (LineDone /\ cmd.t = "List" /\ FailsToOpen(cmd.Left) /\ Starts(cmd.Right))
        => \E q \in LineProcs : PlaceOf(q) = <<"R">> /\ q.state = "exited"

\* the Redir on the left of a List could not open its input, nothing ran
\* under it and no file is open for it, and the command after it has run
C10_Witness ==
    /\ LineDone
    /\ cmd.t = "List"
    /\ cmd.Left.t = "Redir"
    /\ cmd.Left.In.Path # EmptyStr
    /\ ~CanOpenRead(cmd.Left.In.Path)
    /\ \A h \in files.open \cup files.closed : h.at # <<lineno, "L">>
    /\ \A q \in LineProcs : ~IsPrefix(<<"L">>, PlaceOf(q))
    /\ \E q \in LineProcs : PlaceOf(q) = <<"R">> /\ q.state = "exited"

\* (* C11 *) The command under an Async node is eventually started: when the
\* interpreter has come to its end and the last line was an Async of a
\* command that can start, its process has been started.
C11_AsyncStarted ==
    (pc = "done" /\ err = NoErr /\ cmd.t = "Async" /\ Starts(cmd.Cmd))
    => \E q \in LineProcs : PlaceOf(q) = <<"C">>

-----------------------------------------------------------------------------
(* parse applied to short lines of text *)

MaxText == 5

\* the strings of at most n characters of A
RECURSIVE Strings(_, _)
Strings(A, n) ==
    IF n = 0 THEN {<<>>}
    ELSE {<<>>} \cup {<<c>> \o s : c \in A, s \in Strings(A, n - 1)}

RedirChars == {"a", LT, GT, SP}
QuoteChars == {"a", QUOTE, BSL, PIPECH, SP}
GlobChars == {"a", "i", STAR, SP}

InitText ==
    \E text \in Strings(RedirChars, MaxText) \cup Strings(QuoteChars, MaxText)
                \cup Strings(GlobChars, MaxText) :
        InitWith(text)

\* main reads the one line and parses it
NextText == ReadLine \/ Eof

SpecText == InitText /\ [][NextText]_vars

\* how many redirection operators ch a text without quotes holds; a run of
\* the same character is one operator
OpCount(s, ch) == Cardinality({i \in 1..Len(s) : s[i] = ch /\ (i = 1 \/ s[i - 1] # ch)})

\* a simple command without quotes in which every redirection operator is
\* followed at once by its target
PlainRedirs(s) ==
    /\ SeqRange(s) \subseteq RedirChars
    /\ \A i \in 1..Len(s) : s[i] \in {LT, GT} => (i < Len(s) /\ s[i + 1] = "a")

\* (* C12 *) A simple command with two redirections of the same direction
\* fails to parse with "duplicate redirection", and one with one < and one >
\* in either order yields a Redir with both In and Out set.
C12_DuplicateRedirection ==
    (lineno = 1 /\ PlainRedirs(line)) =>
        /\ (OpCount(line, GT) >= 2 \/ OpCount(line, LT) >= 2)
            => err = "duplicate redirection"
        /\ (OpCount(line, GT) = 1 /\ OpCount(line, LT) = 1)
            => (err = NoErr /\ cmd.t = "Redir" /\ cmd.In.Path # EmptyStr
                    /\ cmd.Out.Path # EmptyStr)

\* the words of a text without quotes and backslashes: what its spaces
\* separate
RECURSIVE WordsOf(_, _)
WordsOf(s, cur) ==
    IF s = <<>> THEN IF cur = <<>> THEN <<>> ELSE <<cur>>
    ELSE IF Head(s) = SP
        THEN (IF cur = <<>> THEN <<>> ELSE <<cur>>) \o WordsOf(Tail(s), <<>>)
    ELSE WordsOf(Tail(s), Append(cur, Head(s)))

\* each word with a * or ? replaced, where it stands, by its sorted matches
RECURSIVE ExpandInPlace(_)
ExpandInPlace(ws) ==
    IF ws = <<>> THEN <<>>
    ELSE (IF SeqRange(Head(ws)) \cap {STAR, QMARK} # {} THEN Glob(Head(ws)).names
          ELSE <<Head(ws)>>) \o ExpandInPlace(Tail(ws))

\* (* C13 *) For a text without quotes, fields returns its words with every
\* word that holds a * or ? replaced at its own position by the sorted list
\* of its matches, the other words keeping their places.
C13_GlobInPlace ==
    (lineno = 1 /\ SeqRange(line) \subseteq GlobChars)
    => fields(line) = ExpandInPlace(WordsOf(line, <<>>))

\* The tokenizer as the quoting rules are stated: inside quotes a backslash
\* is an ordinary character; outside quotes it is dropped and the character
\* after it is copied as it is
RECURSIVE LiteralFieldsFrom(_, _, _, _, _, _)
LiteralFieldsFrom(s, i, args, arg, quoted, escaped) ==
    IF i > Len(s) THEN IF Len(arg) > 0 THEN Append(args, arg) ELSE args
    ELSE LET r == s[i] IN
         IF escaped THEN LiteralFieldsFrom(s, i + 1, args, Append(arg, r), quoted, FALSE)
         ELSE IF r = BSL /\ ~quoted THEN LiteralFieldsFrom(s, i + 1, args, arg, quoted, TRUE)
         ELSE IF r = QUOTE THEN LiteralFieldsFrom(s, i + 1, args, arg, ~quoted, FALSE)
         ELSE IF r = SP /\ ~quoted THEN
             LiteralFieldsFrom(s, i + 1, IF Len(arg) > 0 THEN Append(args, arg) ELSE args,
                               <<>>, quoted, FALSE)
         ELSE LiteralFieldsFrom(s, i + 1, args, Append(arg, r), quoted, FALSE)

\* (* C14 *) For a text of words, quotes and backslashes, fields copies a
\* backslash inside a quoted span literally without escaping the character
\* after it, and outside quotes drops the backslash and copies the next
\* character verbatim.
C14_BackslashInQuotes ==
    (lineno = 1 /\ SeqRange(line) \subseteq QuoteChars)
    => fields(line) = LiteralFieldsFrom(line, 1, <<>>, <<>>, FALSE, FALSE)

\* the line main reads next, continuation lines joined
NextLine == joinLines(Head(input), Tail(input)).ln

\* a cd builtin with one argument that names no directory os.Chdir can enter
CdFails(ln) ==
    LET a == fields(ln) IN
    /\ Len(a) = 2
    /\ a[1] = <<"c", "d">>
    /\ DirNamed(cwd, a[2]) = ""

\* (* C15 *) Reading a line that is a cd builtin whose directory cannot be
\* entered gives the error "can't cd" and no tree, leaves the working
\* directory and the search path as they were, starts nothing, and leaves
\* main at its loop for the next line.
C15_CdFailure ==
    [][(pc = "read" /\ input # <<>> /\ lineno' = lineno + 1 /\ CdFails(NextLine))
        => /\ err' = "can't cd"
           /\ stderr' = Append(stderr, "can't cd")
           /\ cmd' = Nil
           /\ cwd' = cwd
           /\ path' = path
           /\ procs' = procs
           /\ threads' = threads
           /\ pc' = "read"]_vars

\* after a cd that failed on the first line the second line's command ran,
\* found where the unchanged working directory and search path put it
C15_Witness ==
    /\ lineno = 2
    /\ stderr = <<"can't cd">>
    /\ cwd = RootDir
    /\ \E q \in LineProcs : q.Path = [dir |-> BinDir, name |-> <<"a">>] /\ q.state = "exited"

\* (* C16 *) A pipe's read end is closed only after every command that was
\* given it as stdin has exited, and its write end only after the command
\* that was given it as stdout has: no process that has not exited holds a
\* closed pipe end.
C16_PipeEndsClosedLate ==
    \A h \in files.closed : \A q \in procs :
        /\ (h.k = "r" /\ q.Stdin = h) => q.state = "exited"
        /\ (h.k = "w" /\ q.Stdout = h) => q.state = "exited"

\* (* C17 *) Every Exec is resolved against the search path and working
\* directory in effect when its own line was evaluated: a process of the
\* first line runs the file which finds from the initial working directory
\* along the initial search path, whatever a cd or path builtin of a later
\* line does.
C17_ResolvedAtOwnLine ==
    \A q \in procs :
        Head(q.at) = 1 => q.Path = whichIn(q.Path.name, 1, RootDir, DefaultPath)

\* the frames of run that have not returned
FramesOf(t) == {threads[t].stack[i] : i \in 1..Len(threads[t].stack)}

\* (* C18 *) Every file a Redir opened is closed by the time run returns from
\* that node, and none is closed before the inner command has exited: a
\* redirection's file is open only while a call of run for its Redir has not
\* returned, and no process that has not exited holds a closed one.
C18_RedirFilesClosed ==
    /\ \A h \in files.open :
        h.k \in {"in", "out"} =>
            \E t \in DOMAIN threads : \E f \in FramesOf(t) :
                f.node.t = "Redir" /\ f.at = h.at
    /\ \A h \in files.closed : \A q \in procs :
        (h.k \in {"in", "out"} /\ (q.Stdin = h \/ q.Stdout = h)) => q.state = "exited"

\* the input file was opened, the output file could not be created, and run
\* has returned to main with the input file closed
C18_Witness ==
    /\ LineDone
    /\ cmd.t = "Redir"
    /\ err = "can't create"
    /\ Handle("in", <<lineno>>) \in files.closed
    /\ Handle("in", <<lineno>>) \notin files.open

\* The 0-based positions of s that fields reads outside every quoted span
\* and not as the character a backslash escapes
RECURSIVE PlainFrom(_, _, _, _)
PlainFrom(s, i, quoted, escaped) ==
    IF i >= Len(s) THEN {}
    ELSE IF escaped THEN PlainFrom(s, i + 1, quoted, FALSE)
    ELSE IF s[i + 1] = BSL THEN PlainFrom(s, i + 1, quoted, TRUE)
    ELSE IF s[i + 1] = QUOTE THEN PlainFrom(s, i + 1, ~quoted, FALSE)
    ELSE (IF quoted THEN {} ELSE {i}) \cup PlainFrom(s, i + 1, quoted, FALSE)

\* the smallest such position that holds ch, or -1
FirstPlain(s, ch) ==
    LET at == {i \in PlainFrom(s, 0, FALSE, FALSE) : s[i + 1] = ch}
    IN IF at = {} THEN -1 ELSE CHOOSE i \in at : \A j \in at : i <= j

\* (* C19 *) peek(line, ch) is the smallest index of a ch that, under the
\* quoting rules fields applies to the same text, is outside every quoted
\* span and not escaped by a backslash, and -1 when there is none.
C19_PeekAgreesWithFields ==
    (lineno = 1 /\ SeqRange(line) \subseteq QuoteChars)
    => peek(line, PIPECH) = FirstPlain(line, PIPECH)

\* (* C20 *) Every Exec node of a tree returned by parse, the Exec under a
\* Redir included, has at least one argument word.
C20_ExecHasWords ==
    \A p \in Places(cmd) :
        NodeAt(cmd, p).t = "Exec" => Len(NodeAt(cmd, p).Args) >= 1

====
